---- MODULE Spec2Model ----
(***************************************************************************)
(* Model of src/2.6.0/wso2apim.js: the WSO2 API Manager 2.6.0 client.      *)
(*                                                                         *)
(* Two state machines share this module.                                   *)
(*   MapSpec  the definition mapper constructAPIDef applied repeatedly to  *)
(*            one caller-owned logical definition drawn from a bounded set  *)
(*   Spec     the exported operations: each call runs its synchronous      *)
(*            part (request preparation and the axios call), then the      *)
(*            .then/.catch callback runs when the HTTP call settles;       *)
(*            several calls are in flight at once                          *)
(*                                                                         *)
(* JavaScript values.  undefined is None (the empty tuple) and a defined   *)
(* value v is Some(v).  Strings whose characters matter (URLs, JMS         *)
(* parameters) are sequences of one-character strings; other strings are   *)
(* atoms.  A JavaScript object with insertion-ordered keys (the JMS        *)
(* parameters) is a sequence of <<key, value>> pairs.                      *)
(***************************************************************************)
EXTENDS Integers, Sequences, FiniteSets, TLC

VARIABLES
    apiDef,     \* MapSpec: the caller's logical definition object (heap)
    apiDef0,    \* MapSpec: that object as it was before the first call
    outs,       \* MapSpec: what constructAPIDef returned, call by call
    mapLogged,  \* MapSpec: number of utils.renderError invocations
    frame,      \* backendBaseUrl/backendType of the last constructAPIDef
                \* activation, as it left them (lines 243-244)
    calls       \* Spec: the calls of exported operations, by issue order

vars == <<apiDef, apiDef0, outs, mapLogged, frame, calls>>

-----------------------------------------------------------------------------
(* Bounds *)

\* JMS parameter objects have at most this many keys
MaxParams == 2
\* constructAPIDef is applied at most this many times to one definition
MaxRepeat == 2
\* number of calls of exported operations in flight together
NumCalls == 2

-----------------------------------------------------------------------------
(* JavaScript values *)

None == <<>>
Some(v) == <<v>>

\* truthiness of an optional object or array (any defined object is truthy)
TruthyObj(o) == o # None
\* truthiness of an optional character string ('' is falsy)
TruthyStr(o) == o # None /\ o[1] # <<>>
\* truthiness of an optional atom string ('' is falsy)
TruthyName(o) == o # None /\ o[1] # ""
\* truthiness of an optional number (0 is falsy)
TruthyNum(o) == o # None /\ o[1] # 0
\* truthiness of an optional boolean
TruthyBool(o) == o # None /\ o[1]

\* [a, b].join(sep)
Join2(a, sep, b) == a \o sep \o b

RECURSIVE Flatten(_)
Flatten(ss) == IF ss = <<>> THEN <<>> ELSE Head(ss) \o Flatten(Tail(ss))

\* encodeURIComponent on one character: unreserved characters are kept,
\* every other character becomes its percent escape
EncodeChar(c) ==
    CASE c = " " -> <<"%", "2", "0">>
      [] c = "&" -> <<"%", "2", "6">>
      [] c = "=" -> <<"%", "3", "D">>
      [] c = "/" -> <<"%", "2", "F">>
      [] c = ":" -> <<"%", "3", "A">>
      [] c = "?" -> <<"%", "3", "F">>
      [] OTHER   -> <<c>>

encodeURIComponent(s) == Flatten([i \in 1..Len(s) |-> EncodeChar(s[i])])

RECURSIVE qsPairs(_, _)
qsPairs(obj, encode) ==
    IF obj = <<>> THEN <<>>
    ELSE LET k == IF encode THEN encodeURIComponent(Head(obj)[1]) ELSE Head(obj)[1]
             v == IF encode THEN encodeURIComponent(Head(obj)[2]) ELSE Head(obj)[2]
             rest == qsPairs(Tail(obj), encode)
         IN  k \o <<"=">> \o v \o (IF rest = <<>> THEN <<>> ELSE <<"&">> \o rest)

\* qs.stringify(obj, { encode }): key=value pairs in key order joined by &;
\* undefined and {} give ''
qsStringify(obj, encode) == IF obj = None THEN <<>> ELSE qsPairs(obj[1], encode)

\* JSON.stringify of the endpointConfig object: a key whose value is
\* undefined is left out of the text
JSONstringifyEndpointConfig(url, endpointType) ==
    LET endpoints == IF url = None THEN [config |-> "null"]
                     ELSE [url |-> url[1], config |-> "null"]
    IN  [production_endpoints |-> endpoints,
         sandbox_endpoints    |-> endpoints,
         endpoint_type        |-> endpointType]

\* JSON.stringify(apiDef.swaggerSpec): undefined stays undefined
JSONstringifySwagger(swaggerSpec) ==
    IF swaggerSpec = None THEN None ELSE Some([json |-> swaggerSpec[1]])

\* a record with one more key
WithKey(r, k, c) == [f \in DOMAIN r \cup {k} |-> IF f = k THEN c ELSE r[f]]

-----------------------------------------------------------------------------
(* utils.renderError (src/utils/utils.js is not among the sources) logs the *)
(* error; what it returns is not known, so both shapes are allowed          *)

renderErrorReturns(err) == {None, Some([rendered |-> err])}

-----------------------------------------------------------------------------
(* Definition mapper *)

\* let backendBaseUrl, backendType;  -- fresh, undefined, whatever an
\* earlier activation (scope) left behind
LetBackend_shared(scope) == scope
LetBackend(scope) == [backendBaseUrl |-> None, backendType |-> None]

\* backendBaseUrl = ''; backendType = '';
ResetBackend == [backendBaseUrl |-> Some(<<>>), backendType |-> Some("")]

\* ['jms:', destination].join('/'), then [.., qs.stringify(parameters,
\* { encode: false })].join('?')
jmsBackendUrl_encoded(jms) ==
    Join2(Join2(<<"j", "m", "s", ":">>, <<"/">>, jms.destination[1]),
          <<"?">>, qsStringify(jms.parameters, TRUE))
jmsBackendUrl(jms) ==
    Join2(Join2(<<"j", "m", "s", ":">>, <<"/">>, jms.destination[1]),
          <<"?">>, qsStringify(jms.parameters, FALSE))

\* lines 166-180: the backend-specific locals after the if/else-if
resolveBackend_jmsFirst(scope, backend) ==
    LET l0 == LetBackend(scope)
    IN  IF TruthyObj(backend.jms)
        THEN [backendBaseUrl |-> IF TruthyStr(backend.jms[1].destination)
                                 THEN Some(jmsBackendUrl(backend.jms[1]))
                                 ELSE l0.backendBaseUrl,
              backendType |-> Some("HTTP")]
        ELSE IF TruthyObj(backend.http)
        THEN [backendBaseUrl |-> IF TruthyStr(backend.http[1].baseUrl)
                                 THEN backend.http[1].baseUrl
                                 ELSE l0.backendBaseUrl,
              backendType |-> Some("HTTP")]
        ELSE l0
resolveBackend(scope, backend) ==
    LET l0 == LetBackend(scope)
    IN  IF TruthyObj(backend.http)
        THEN [backendBaseUrl |-> IF TruthyStr(backend.http[1].baseUrl)
                                 THEN backend.http[1].baseUrl
                                 ELSE l0.backendBaseUrl,
              backendType |-> Some("HTTP")]
        ELSE IF TruthyObj(backend.jms)
        THEN [backendBaseUrl |-> IF TruthyStr(backend.jms[1].destination)
                                 THEN Some(jmsBackendUrl(backend.jms[1]))
                                 ELSE l0.backendBaseUrl,
              backendType |-> Some("HTTP")]
        ELSE l0

\* lines 182-194
constructMediationPolicies(mp) ==
    IF ~TruthyObj(mp) THEN <<>>
    ELSE (IF TruthyName(mp[1].in)
          THEN <<[name |-> mp[1].in[1], type |-> "in"]>> ELSE <<>>)
      \o (IF TruthyName(mp[1].out)
          THEN <<[name |-> mp[1].out[1], type |-> "out"]>> ELSE <<>>)
      \o (IF TruthyName(mp[1].fault)
          THEN <<[name |-> mp[1].fault[1], type |-> "fault"]>> ELSE <<>>)

defaultAllowHeaders ==
    <<"Authorization", "Access-Control-Allow-Origin", "Content-Type", "SOAPAction">>
defaultAllowMethods == <<"GET", "PUT", "POST", "DELETE", "PATCH", "OPTIONS">>

constructCorsConfiguration_noHeaders(cors) ==
    [corsConfigurationEnabled      |-> TRUE,
     accessControlAllowOrigins     |-> IF TruthyObj(cors.origins)
                                       THEN cors.origins[1] ELSE <<"*">>,
     accessControlAllowCredentials |-> IF TruthyBool(cors.credentials)
                                       THEN cors.credentials[1] ELSE FALSE,
     accessControlAllowHeaders     |-> defaultAllowHeaders,
     accessControlAllowMethods     |-> IF TruthyObj(cors.methods)
                                       THEN cors.methods[1] ELSE defaultAllowMethods]
\* constructCorsConfiguration(apiDef), on apiDef.cors
constructCorsConfiguration(cors) ==
    [corsConfigurationEnabled      |-> TRUE,
     accessControlAllowOrigins     |-> IF TruthyObj(cors.origins)
                                       THEN cors.origins[1] ELSE <<"*">>,
     accessControlAllowCredentials |-> IF TruthyBool(cors.credentials)
                                       THEN cors.credentials[1] ELSE FALSE,
     accessControlAllowHeaders     |-> IF TruthyObj(cors.headers)
                                       THEN cors.headers[1] ELSE defaultAllowHeaders,
     accessControlAllowMethods     |-> IF TruthyObj(cors.methods)
                                       THEN cors.methods[1] ELSE defaultAllowMethods]

\* [...apiDef.tags, 'serverless-wso2-apim']: out is the new array, src the
\* caller's array after the expression was evaluated
spreadTags_push(tags) ==
    [out |-> Append(tags, "serverless-wso2-apim"),
     src |-> Append(tags, "serverless-wso2-apim")]
spreadTags(tags) ==
    [out |-> Append(tags, "serverless-wso2-apim"), src |-> tags]

\* the contact fields of the swagger document (lines 233-236)
contactField(swaggerSpec, f) ==
    IF /\ TruthyObj(swaggerSpec.info)
       /\ TruthyObj(swaggerSpec.info[1].contact)
       /\ TruthyName(swaggerSpec.info[1].contact[1][f])
    THEN swaggerSpec.info[1].contact[1][f]
    ELSE None

\* what makes the try block of constructAPIDef throw a TypeError:
\* apiDef.backend.http, [...apiDef.tags] and apiDef.swaggerSpec.info
constructAPIDefThrows(d) ==
    d.backend = None \/ d.tags = None \/ d.swaggerSpec = None

\* constructAPIDef(user, gatewayEnv, apiDef, apiId), run while `scope` is
\* what the previous activation left in its locals.  ret is the returned
\* value, apiDef the caller's object afterwards, logged the number of
\* utils.renderError invocations, frame the locals at exit.
constructAPIDef(scope, user, gatewayEnv, d, apiId) ==
    IF constructAPIDefThrows(d)
    THEN [ret |-> None, apiDef |-> d, logged |-> 1,
          frame |-> IF d.backend = None THEN LetBackend(scope)
                    ELSE resolveBackend(scope, d.backend[1])]
    ELSE
    LET backend == d.backend[1]
        l       == resolveBackend(scope, backend)
        tags    == spreadTags(d.tags[1])
        base    ==
          [id                 |-> apiId,
           name               |-> d.name,
           description        |-> d.description,
           context            |-> d.rootContext,
           version            |-> d.version,
           provider           |-> user,
           apiDefinition      |-> JSONstringifySwagger(d.swaggerSpec),
           status             |-> "CREATED",
           isDefaultVersion   |-> FALSE,
           type               |-> l.backendType,
           transport          |-> <<"https">>,
           tags               |-> tags.out,
           tiers              |-> <<"Unlimited">>,
           maxTps             |-> [sandbox    |-> IF TruthyNum(d.maxTps) THEN d.maxTps ELSE None,
                                   production |-> IF TruthyNum(d.maxTps) THEN d.maxTps ELSE None],
           visibility         |-> d.visibility,
           endpointConfig     |-> JSONstringifyEndpointConfig(
                                    l.backendBaseUrl,
                                    IF TruthyName(backend.endpointType)
                                    THEN backend.endpointType[1] ELSE "http"),
           endpointSecurity   |-> "null",
           gatewayEnvironments |-> gatewayEnv,
           sequences          |-> constructMediationPolicies(d.mediationPolicies),
           additionalProperties |-> IF TruthyObj(d.apiProperties) /\ Len(d.apiProperties[1]) > 0
                                    THEN d.apiProperties ELSE None,
           subscriptionAvailability     |-> "current_tenant",
           subscriptionAvailableTenants |-> <<>>,
           businessInformation |->
             [businessOwnerEmail  |-> contactField(d.swaggerSpec[1], "email"),
              technicalOwnerEmail |-> contactField(d.swaggerSpec[1], "email"),
              technicalOwner      |-> contactField(d.swaggerSpec[1], "name"),
              businessOwner       |-> contactField(d.swaggerSpec[1], "name")]]
    IN  [ret    |-> Some(IF TruthyObj(d.cors)
                         THEN WithKey(base, "corsConfiguration",
                                      constructCorsConfiguration(d.cors[1]))
                         ELSE base),
         apiDef |-> [d EXCEPT !.tags = Some(tags.src)],
         logged |-> 0,
         frame  |-> ResetBackend]

-----------------------------------------------------------------------------
(* Inputs of the mapper: the logical definitions a caller may pass *)

User == "admin"
GatewayEnv == "Production"

BaseUrls == {<<"h", ":", "/", "b">>, <<"h", "?", "q", "=", "1", " ", "2">>}
Destinations == {<<"D">>, <<"q", "/", "D">>}
ParamKeys == {<<"a">>, <<"b">>, <<"c">>}
ParamVals == {<<"1">>, <<"2">>, <<"x", " ", "&">>}

\* parameter objects: up to MaxParams keys, no key twice, in key order
ParamObjs ==
    UNION {{o \in [1..n -> ParamKeys \X ParamVals] :
              \A i, j \in 1..n : i # j => o[i][1] # o[j][1]} : n \in 0..MaxParams}

HttpBackends ==
    {None, Some([baseUrl |-> None]), Some([baseUrl |-> Some(<<>>)])}
      \cup {Some([baseUrl |-> Some(u)]) : u \in BaseUrls}
JmsBackends ==
    {None} \cup
    {Some([destination |-> dd, parameters |-> p]) :
        dd \in {None, Some(<<>>)} \cup {Some(x) : x \in Destinations},
        p \in {None} \cup {Some(o) : o \in ParamObjs}}
Backends ==
    {None} \cup
    {Some([http |-> h, jms |-> j, endpointType |-> e]) :
        h \in HttpBackends, j \in JmsBackends, e \in {None, Some("address")}}

CorsBlocks ==
    {None} \cup
    {Some([origins |-> o, credentials |-> c, headers |-> h, methods |-> m]) :
        o \in {None, Some(<<>>), Some(<<"https://a.example">>)},
        c \in {None, Some(TRUE), Some(FALSE)},
        h \in {None, Some(<<"X-Trace">>)},
        m \in {None, Some(<<"GET">>)}}

TagLists == {None, Some(<<>>), Some(<<"t1">>)}
MaxTpsValues == {None, Some(0), Some(10)}
MediationBlocks ==
    {None,
     Some([in |-> Some("log-in"), out |-> None, fault |-> None]),
     Some([in |-> Some("log-in"), out |-> Some("log-out"), fault |-> Some("")]),
     Some([in |-> None, out |-> Some("log-out"), fault |-> Some("log-fault")])}
SwaggerSpecs ==
    {None,
     Some([info |-> None]),
     Some([info |-> Some([contact |-> None])]),
     Some([info |-> Some([contact |-> Some([email |-> Some("o@example"), name |-> None])])]),
     Some([info |-> Some([contact |-> Some([email |-> Some("o@example"), name |-> Some("Owner")])])])}
ApiProperties == {None, Some(<<>>), Some(<<<<"k", "v">>>>)}

DefaultDef ==
    [name |-> "api", description |-> "an api", rootContext |-> "/ctx",
     version |-> "v1", visibility |-> "PUBLIC",
     swaggerSpec |-> Some([info |-> None]),
     tags |-> Some(<<"t1">>),
     maxTps |-> None,
     backend |-> Some([http |-> Some([baseUrl |-> Some(<<"h", ":", "/", "b">>)]),
                       jms |-> None, endpointType |-> None]),
     mediationPolicies |-> None,
     apiProperties |-> None,
     cors |-> None]

\* the definitions MapSpec starts from: every backend with the other fields
\* at their default, every CORS block with every tag list, and every
\* combination of the remaining optional fields
LogicalDefs ==
    {[DefaultDef EXCEPT !.backend = b] : b \in Backends}
      \cup {[DefaultDef EXCEPT !.cors = c, !.tags = t] :
                c \in CorsBlocks, t \in TagLists}
      \cup {[DefaultDef EXCEPT !.maxTps = x, !.mediationPolicies = m,
                               !.swaggerSpec = s, !.apiProperties = p, !.tags = t] :
                x \in MaxTpsValues, m \in MediationBlocks, s \in SwaggerSpecs,
                p \in ApiProperties, t \in TagLists}

InitFrame == [backendBaseUrl |-> None, backendType |-> None]

-----------------------------------------------------------------------------
(* MapSpec: the caller applies constructAPIDef to its definition, again and *)
(* again with the same arguments                                            *)

MapApiId == Some("id-1")

MapInit ==
    /\ apiDef \in LogicalDefs
    /\ apiDef0 = apiDef
    /\ outs = <<>>
    /\ mapLogged = 0
    /\ frame = InitFrame
    /\ calls = <<>>

MapCall ==
    /\ Len(outs) < MaxRepeat
    /\ LET r == constructAPIDef(frame, User, GatewayEnv, apiDef, MapApiId)
       IN  /\ outs' = Append(outs, r.ret)
           /\ apiDef' = r.apiDef
           /\ mapLogged' = mapLogged + r.logged
           /\ frame' = r.frame
    /\ UNCHANGED <<apiDef0, calls>>

MapNext == MapCall

MapSpec == MapInit /\ [][MapNext]_vars

-----------------------------------------------------------------------------
(* Claims about the mapper (checked under MapSpec) *)

\* the definition was mapped at least once and the mapper did not fail
Mapped == outs # <<>> /\ outs[1] # None
Out == outs[Len(outs)][1]
InBackend == apiDef0.backend[1]

RECURSIVE QueryText(_, _)
\* key=value pairs of obj, in order, joined by &; with enc each key and
\* value is percent-encoded
QueryText(obj, enc) ==
    IF obj = <<>> THEN <<>>
    ELSE LET kv == IF enc
                   THEN encodeURIComponent(obj[1][1]) \o <<"=">> \o encodeURIComponent(obj[1][2])
                   ELSE obj[1][1] \o <<"=">> \o obj[1][2]
         IN  IF Len(obj) = 1 THEN kv ELSE kv \o <<"&">> \o QueryText(Tail(obj), enc)

JmsOnly ==
    /\ Mapped
    /\ InBackend.http = None
    /\ InBackend.jms # None
    /\ TruthyStr(InBackend.jms[1].destination)

JmsUrlIs(enc) ==
    LET jms == InBackend.jms[1]
        url == <<"j", "m", "s", ":", "/">> \o jms.destination[1] \o <<"?">>
                 \o QueryText(IF jms.parameters = None THEN <<>> ELSE jms.parameters[1], enc)
    IN  /\ Out.type = Some("HTTP")
        /\ "url" \in DOMAIN Out.endpointConfig.production_endpoints
        /\ "url" \in DOMAIN Out.endpointConfig.sandbox_endpoints
        /\ Out.endpointConfig.production_endpoints.url = url
        /\ Out.endpointConfig.sandbox_endpoints.url = url

C7_HttpBackend ==
    (Mapped /\ InBackend.http # None) =>
        LET http == InBackend.http[1]
            ec   == Out.endpointConfig
        IN  /\ Out.type = Some("HTTP")
            /\ TruthyStr(http.baseUrl) =>
                 /\ "url" \in DOMAIN ec.production_endpoints
                 /\ "url" \in DOMAIN ec.sandbox_endpoints
                 /\ ec.production_endpoints.url = http.baseUrl[1]
                 /\ ec.sandbox_endpoints.url = http.baseUrl[1]
            /\ ~TruthyStr(http.baseUrl) =>
                 /\ "url" \notin DOMAIN ec.production_endpoints
                 /\ "url" \notin DOMAIN ec.sandbox_endpoints
            /\ Some(Out) = constructAPIDef(InitFrame, User, GatewayEnv,
                               [apiDef0 EXCEPT !.backend = Some([InBackend EXCEPT !.jms = None])],
                               MapApiId).ret

\* a definition with both an HTTP base URL and a JMS destination is mapped
C7_Witness ==
    /\ Mapped
    /\ InBackend.http # None /\ TruthyStr(InBackend.http[1].baseUrl)
    /\ InBackend.jms # None /\ TruthyStr(InBackend.jms[1].destination)

\* C8: a declared CORS block gives a corsConfiguration that is enabled and
\* holds, field by field, the caller's value when set and the vendor
\* default otherwise; without a CORS block the output has no such key
C8_Cors ==
    Mapped =>
        IF apiDef0.cors = None
        THEN "corsConfiguration" \notin DOMAIN Out
        ELSE /\ "corsConfiguration" \in DOMAIN Out
             /\ LET c == apiDef0.cors[1]
                    o == Out.corsConfiguration
                IN  /\ o.corsConfigurationEnabled = TRUE
                    /\ o.accessControlAllowOrigins =
                         (IF c.origins # None THEN c.origins[1] ELSE <<"*">>)
                    /\ o.accessControlAllowCredentials =
                         (IF c.credentials # None THEN c.credentials[1] ELSE FALSE)
                    /\ o.accessControlAllowHeaders =
                         (IF c.headers # None THEN c.headers[1]
                          ELSE <<"Authorization", "Access-Control-Allow-Origin",
                                 "Content-Type", "SOAPAction">>)
                    /\ o.accessControlAllowMethods =
                         (IF c.methods # None THEN c.methods[1]
                          ELSE <<"GET", "PUT", "POST", "DELETE", "PATCH", "OPTIONS">>)

\* a CORS block that sets its own origins and headers has been mapped
C8_Witness ==
    /\ Mapped
    /\ apiDef0.cors # None
    /\ apiDef0.cors[1].origins = Some(<<"https://a.example">>)
    /\ apiDef0.cors[1].headers = Some(<<"X-Trace">>)
    /\ apiDef0.cors[1].credentials = None
    /\ apiDef0.cors[1].methods = None

\* C9: every application of constructAPIDef to the same definition with the
\* same arguments returns the same output, and the caller's definition is
\* as it was before the first application
C9_Idempotent ==
    /\ \A i, j \in 1..Len(outs) : outs[i] = outs[j]
    /\ apiDef = apiDef0

\* the mapper ran twice on a definition that has a tag of its own
C9_Witness ==
    /\ Len(outs) = 2
    /\ Mapped
    /\ apiDef0.tags = Some(<<"t1">>)
    /\ Out.tags = <<"t1", "serverless-wso2-apim">>

-----------------------------------------------------------------------------
(* The exported operations: inputs *)

\* the connection config, or undefined when the caller passes none
Wso2APIM ==
    [host |-> "apim.example", port |-> "9443", versionSlug |-> "v0.14",
     user |-> User, pass |-> "secret", gatewayEnv |-> GatewayEnv]
Configs == {None, Some(Wso2APIM)}

AccessToken == "token-1"
ApiIds == {"id-1"}
CertAliases == {"alias-1"}
\* a certificate path, or undefined (fs.createReadStream throws on it)
CertPaths == {None, Some("/certs/backend.pem")}

\* the definitions passed to createAPIDef/updateAPIDef: an HTTP backend
\* with a base URL, one without, and a definition without backend
CallDefs ==
    {DefaultDef,
     [DefaultDef EXCEPT !.backend =
         Some([http |-> Some([baseUrl |-> None]), jms |-> None, endpointType |-> None])],
     [DefaultDef EXCEPT !.backend = None]}

\* how the HTTP call of axios ends: a 2xx response, a non-2xx response
\* whose body may carry a vendor error code, or a failure without response
OkResponse ==
    [status |-> 200,
     data |-> [id |-> "id-1", name |-> "api", context |-> "/ctx",
               status |-> "CREATED", access_token |-> AccessToken]]
ErrorResponses ==
    {[status |-> 404, data |-> [code |-> Some(404)]],
     [status |-> 409, data |-> [code |-> Some(409)]],
     [status |-> 500, data |-> [code |-> Some(500)]],
     [status |-> 404, data |-> [code |-> None]]}

CertOps == {"isCertUploaded", "uploadCert", "removeCert"}

\* the errors the HTTP call of operation op may end with: any of the error
\* responses for the operations that look into the response, one of them
\* for the operations that do not, and for all the failure without response
HttpErrors(op) ==
    {[response |-> Some(r)] :
        r \in IF op \in CertOps THEN ErrorResponses
              ELSE {[status |-> 500, data |-> [code |-> Some(500)]]}}
      \cup {[response |-> None]}

-----------------------------------------------------------------------------
(* The exported operations: synchronous part *)

base64(a, b) == [base64 |-> <<a, ":", b>>]
Bearer(token) == <<"Bearer", token>>
Publisher(w) == <<"https", w.host, w.port, "api/am/publisher", w.versionSlug>>

\* whether the try block throws before the axios call: every operation
\* reads wso2APIM.host first; uploadCert and updateCert open the file
prepareThrows(op, w, arg) ==
    \/ w = None
    \/ op \in {"uploadCert", "updateCert"} /\ arg.cert = None

\* the request handed to axios by the try block of operation op, with
\* `scope` what the last constructAPIDef activation left in its locals
requestOf(scope, op, w0, arg) ==
    LET w == w0[1]
    IN CASE op = "registerClient" ->
              [method |-> "POST",
               url |-> <<"https", w.host, w.port, "client-registration", w.versionSlug, "register">>,
               headers |-> [Authorization |-> <<"Basic", base64(w.user, w.pass)>>,
                            ContentType |-> "application/json"],
               data |-> Some([clientName |-> "serverless-wso2-apim", owner |-> w.user,
                              grantType |-> "password refresh_token", saasApp |-> TRUE])]
         [] op = "generateToken" ->
              [method |-> "POST",
               url |-> <<"https", w.host, w.port, "oauth2/token">>,
               headers |-> [Authorization |-> <<"Basic", base64(arg.clientId, arg.clientSecret)>>,
                            ContentType |-> "application/x-www-form-urlencoded"],
               data |-> Some([grant_type |-> "password", username |-> w.user,
                              password |-> w.pass, scope |-> "apim:*"])]
         [] op = "isAPIDeployed" ->
              [method |-> "GET",
               url |-> Publisher(w) \o <<"apis", "?query=name:", arg.apiName,
                                         " version:", arg.apiVersion,
                                         " context:", arg.apiContext>>,
               headers |-> [Authorization |-> Bearer(arg.accessToken)],
               data |-> None]
         [] op = "isCertUploaded" ->
              [method |-> "GET",
               url |-> Publisher(w) \o <<"certificates", arg.certAlias>>,
               headers |-> [Authorization |-> Bearer(arg.accessToken)],
               data |-> None]
         [] op = "createAPIDef" ->
              [method |-> "POST",
               url |-> Publisher(w) \o <<"apis">>,
               headers |-> [Authorization |-> Bearer(arg.accessToken),
                            ContentType |-> "application/json"],
               data |-> constructAPIDef(scope, w.user, w.gatewayEnv, arg.apiDef, None).ret]
         [] op = "publishAPIDef" ->
              [method |-> "POST",
               url |-> Publisher(w) \o <<"apis", "change-lifecycle">>,
               headers |-> [Authorization |-> Bearer(arg.accessToken)],
               params |-> [apiId |-> arg.apiId, action |-> "Publish"],
               data |-> Some([empty |-> TRUE])]
         [] op = "listInvokableAPIUrl" ->
              [method |-> "GET",
               url |-> <<"https", w.host, w.port, "api/am/store", w.versionSlug,
                         "apis", arg.apiId>>,
               headers |-> [Authorization |-> Bearer(arg.accessToken)],
               data |-> None]
         [] op = "uploadCert" ->
              [method |-> "POST",
               url |-> Publisher(w) \o <<"certificates">>,
               headers |-> [Authorization |-> Bearer(arg.accessToken),
                            ContentType |-> "multipart/form-data"],
               data |-> Some([certificate |-> arg.cert[1], alias |-> arg.certAlias,
                              endpoint |-> arg.backendUrl])]
         [] op = "updateAPIDef" ->
              [method |-> "PUT",
               url |-> Publisher(w) \o <<"apis", arg.apiId>>,
               headers |-> [Authorization |-> Bearer(arg.accessToken),
                            ContentType |-> "application/json"],
               data |-> constructAPIDef(scope, w.user, w.gatewayEnv, arg.apiDef,
                                        Some(arg.apiId)).ret]
         [] op = "removeAPIDef" ->
              [method |-> "DELETE",
               url |-> Publisher(w) \o <<"apis", arg.apiId>>,
               headers |-> [Authorization |-> Bearer(arg.accessToken)],
               data |-> None]
         [] op = "removeCert" ->
              [method |-> "DELETE",
               url |-> Publisher(w) \o <<"certificates", arg.certAlias>>,
               headers |-> [Authorization |-> Bearer(arg.accessToken)],
               data |-> None]
         [] op = "updateCert" ->
              [method |-> "PUT",
               url |-> Publisher(w) \o <<"certificates", arg.certAlias>>,
               headers |-> [Authorization |-> Bearer(arg.accessToken),
                            ContentType |-> "multipart/form-data"],
               data |-> Some([certificate |-> arg.cert[1]])]
         [] op = "listCertInfo" ->
              [method |-> "GET",
               url |-> Publisher(w) \o <<"certificates", arg.certAlias>>,
               headers |-> [Authorization |-> Bearer(arg.accessToken),
                            Accept |-> "application/json"],
               data |-> None]

\* the outer catch (err) { utils.renderError(err); } of every operation:
\* the async function then returns undefined, which resolves its promise
syncCatch_rethrow(err) ==
    [promise |-> [state |-> "rejected", value |-> Some([thrown |-> err])], logged |-> 1]
syncCatch(err) ==
    [promise |-> [state |-> "resolved", value |-> None], logged |-> 1]

\* the number of axios calls the try block of an operation makes
axiosCalls(op) == 1

-----------------------------------------------------------------------------
(* The exported operations: the callbacks on the axios promise *)

\* the argument of resolve() in the .then callback
onFulfilled(op, res) ==
    CASE op \in {"publishAPIDef", "uploadCert", "removeCert", "updateCert"} ->
            Some([res |-> res])
      [] op = "generateToken" ->
            Some([accessToken |-> res.data.access_token])
      [] op = "createAPIDef" ->
            Some([apiId |-> res.data.id, apiName |-> res.data.name,
                  apiContext |-> res.data.context, apiStatus |-> res.data.status])
      [] OTHER -> Some([data |-> res.data])

\* the vendor error code a certificate operation does not log
suppressedCode_all404(op) ==
    IF op \in CertOps THEN Some(404) ELSE None
suppressedCode(op) ==
    CASE op \in {"isCertUploaded", "removeCert"} -> Some(404)
      [] op = "uploadCert" -> Some(409)
      [] OTHER -> None

\* the .catch callback: what it does to the promise of the operation and
\* how often it invokes utils.renderError; r is what renderError returns.
\* The certificate operations read err.response.data.code, which throws
\* inside the callback when err carries no response: then neither resolve
\* nor reject is called
onRejected(op, err, r) ==
    CASE op \in CertOps ->
            IF err.response = None
            THEN [promise |-> [state |-> "pending", value |-> None], logged |-> 0]
            ELSE [promise |-> [state |-> "rejected", value |-> Some(err)],
                  logged |-> IF err.response[1].data.code # suppressedCode(op)
                             THEN 1 ELSE 0]
      [] op = "createAPIDef" ->
            [promise |-> [state |-> "rejected", value |-> r], logged |-> 1]
      [] OTHER ->
            [promise |-> [state |-> "rejected", value |-> Some(err)], logged |-> 1]

\* neither callback calls axios again
requestsInCallback_retry(op, ok) == IF ok THEN 0 ELSE 1
requestsInCallback(op, ok) == 0

-----------------------------------------------------------------------------
(* Spec: calls of the exported operations *)

IdleCall ==
    [pc |-> "idle", op |-> "none", wso2APIM |-> None, arg |-> [none |-> TRUE],
     request |-> None, nreq |-> 0,
     promise |-> [state |-> "pending", value |-> None],
     logged |-> 0, outcome |-> [none |-> TRUE]]

Init ==
    /\ calls = [i \in 1..NumCalls |-> IdleCall]
    /\ frame = InitFrame
    /\ apiDef = DefaultDef
    /\ apiDef0 = DefaultDef
    /\ outs = <<>>
    /\ mapLogged = 0

\* the synchronous part of a call of operation op: the try block either
\* throws (outer catch) or hands one request to axios and returns the
\* pending promise.  call is the call afterwards, frame the locals the
\* mapper left behind
invoke(scope, op, w, arg) ==
    IF prepareThrows(op, w, arg)
    THEN LET c == syncCatch("TypeError")
         IN  [call |-> [IdleCall EXCEPT !.pc = "returned", !.op = op, !.wso2APIM = w,
                                        !.arg = arg, !.promise = c.promise,
                                        !.logged = c.logged],
              frame |-> scope]
    ELSE LET usesMapper == op \in {"createAPIDef", "updateAPIDef"}
             m == constructAPIDef(scope, w[1].user, w[1].gatewayEnv, arg.apiDef, None)
         IN  [call |-> [IdleCall EXCEPT !.pc = "pending", !.op = op, !.wso2APIM = w,
                                        !.arg = arg,
                                        !.request = Some(requestOf(scope, op, w, arg)),
                                        !.nreq = axiosCalls(op),
                                        !.logged = IF usesMapper THEN m.logged ELSE 0],
              frame |-> IF usesMapper THEN m.frame ELSE scope]

\* the caller issues its calls in index order
CanBegin(i) == calls[i].pc = "idle" /\ (i > 1 => calls[i - 1].pc # "idle")

registerClient(i) ==
    /\ CanBegin(i)
    /\ \E w \in Configs :
          LET b == invoke(frame, "registerClient", w,
                          [none |-> TRUE])
          IN  calls' = [calls EXCEPT ![i] = b.call] /\ frame' = b.frame
    /\ UNCHANGED <<apiDef, apiDef0, outs, mapLogged>>

generateToken(i) ==
    /\ CanBegin(i)
    /\ \E w \in Configs :
          LET b == invoke(frame, "generateToken", w,
                          [clientId |-> "client-1", clientSecret |-> "s3cret"])
          IN  calls' = [calls EXCEPT ![i] = b.call] /\ frame' = b.frame
    /\ UNCHANGED <<apiDef, apiDef0, outs, mapLogged>>

isAPIDeployed(i) ==
    /\ CanBegin(i)
    /\ \E w \in Configs :
          LET b == invoke(frame, "isAPIDeployed", w,
                          [accessToken |-> AccessToken, apiName |-> "api",
                           apiVersion |-> "v1", apiContext |-> "/ctx"])
          IN  calls' = [calls EXCEPT ![i] = b.call] /\ frame' = b.frame
    /\ UNCHANGED <<apiDef, apiDef0, outs, mapLogged>>

isCertUploaded(i) ==
    /\ CanBegin(i)
    /\ \E w \in Configs, a \in CertAliases :
          LET b == invoke(frame, "isCertUploaded", w,
                          [accessToken |-> AccessToken, certAlias |-> a])
          IN  calls' = [calls EXCEPT ![i] = b.call] /\ frame' = b.frame
    /\ UNCHANGED <<apiDef, apiDef0, outs, mapLogged>>

createAPIDef(i) ==
    /\ CanBegin(i)
    /\ \E w \in Configs, d \in CallDefs :
          LET b == invoke(frame, "createAPIDef", w,
                          [accessToken |-> AccessToken, apiDef |-> d])
          IN  calls' = [calls EXCEPT ![i] = b.call] /\ frame' = b.frame
    /\ UNCHANGED <<apiDef, apiDef0, outs, mapLogged>>

publishAPIDef(i) ==
    /\ CanBegin(i)
    /\ \E w \in Configs, id \in ApiIds :
          LET b == invoke(frame, "publishAPIDef", w,
                          [accessToken |-> AccessToken, apiId |-> id])
          IN  calls' = [calls EXCEPT ![i] = b.call] /\ frame' = b.frame
    /\ UNCHANGED <<apiDef, apiDef0, outs, mapLogged>>

listInvokableAPIUrl(i) ==
    /\ CanBegin(i)
    /\ \E w \in Configs, id \in ApiIds :
          LET b == invoke(frame, "listInvokableAPIUrl", w,
                          [accessToken |-> AccessToken, apiId |-> id])
          IN  calls' = [calls EXCEPT ![i] = b.call] /\ frame' = b.frame
    /\ UNCHANGED <<apiDef, apiDef0, outs, mapLogged>>

uploadCert(i) ==
    /\ CanBegin(i)
    /\ \E w \in Configs, a \in CertAliases, c \in CertPaths :
          LET b == invoke(frame, "uploadCert", w,
                          [accessToken |-> AccessToken, certAlias |-> a, cert |-> c,
                           backendUrl |-> "https://backend.example"])
          IN  calls' = [calls EXCEPT ![i] = b.call] /\ frame' = b.frame
    /\ UNCHANGED <<apiDef, apiDef0, outs, mapLogged>>

updateAPIDef(i) ==
    /\ CanBegin(i)
    /\ \E w \in Configs, d \in CallDefs, id \in ApiIds :
          LET b == invoke(frame, "updateAPIDef", w,
                          [accessToken |-> AccessToken, apiDef |-> d, apiId |-> id])
          IN  calls' = [calls EXCEPT ![i] = b.call] /\ frame' = b.frame
    /\ UNCHANGED <<apiDef, apiDef0, outs, mapLogged>>

removeAPIDef(i) ==
    /\ CanBegin(i)
    /\ \E w \in Configs, id \in ApiIds :
          LET b == invoke(frame, "removeAPIDef", w,
                          [accessToken |-> AccessToken, apiId |-> id])
          IN  calls' = [calls EXCEPT ![i] = b.call] /\ frame' = b.frame
    /\ UNCHANGED <<apiDef, apiDef0, outs, mapLogged>>

removeCert(i) ==
    /\ CanBegin(i)
    /\ \E w \in Configs, a \in CertAliases :
          LET b == invoke(frame, "removeCert", w,
                          [accessToken |-> AccessToken, certAlias |-> a])
          IN  calls' = [calls EXCEPT ![i] = b.call] /\ frame' = b.frame
    /\ UNCHANGED <<apiDef, apiDef0, outs, mapLogged>>

updateCert(i) ==
    /\ CanBegin(i)
    /\ \E w \in Configs, a \in CertAliases, c \in CertPaths :
          LET b == invoke(frame, "updateCert", w,
                          [accessToken |-> AccessToken, certAlias |-> a, cert |-> c])
          IN  calls' = [calls EXCEPT ![i] = b.call] /\ frame' = b.frame
    /\ UNCHANGED <<apiDef, apiDef0, outs, mapLogged>>

listCertInfo(i) ==
    /\ CanBegin(i)
    /\ \E w \in Configs, a \in CertAliases :
          LET b == invoke(frame, "listCertInfo", w,
                          [accessToken |-> AccessToken, certAlias |-> a])
          IN  calls' = [calls EXCEPT ![i] = b.call] /\ frame' = b.frame
    /\ UNCHANGED <<apiDef, apiDef0, outs, mapLogged>>

\* the HTTP call of call i ends with a 2xx response: the .then callback
HttpSucceeds(i) ==
    /\ calls[i].pc = "pending"
    /\ calls' = [calls EXCEPT ![i] =
          [@ EXCEPT !.pc = "handled",
                    !.outcome = [ok |-> TRUE, res |-> OkResponse],
                    !.promise = [state |-> "resolved",
                                 value |-> onFulfilled(calls[i].op, OkResponse)],
                    !.nreq = @ + requestsInCallback(calls[i].op, TRUE)]]
    /\ UNCHANGED <<apiDef, apiDef0, outs, mapLogged, frame>>

\* the HTTP call of call i fails: the .catch callback
HttpFails(i) ==
    /\ calls[i].pc = "pending"
    /\ \E err \in HttpErrors(calls[i].op) :
       \E r \in renderErrorReturns(err) :
          LET h == onRejected(calls[i].op, err, r)
          IN  calls' = [calls EXCEPT ![i] =
                 [@ EXCEPT !.pc = "handled",
                           !.outcome = [ok |-> FALSE, err |-> err],
                           !.promise = h.promise,
                           !.logged = @ + h.logged,
                           !.nreq = @ + requestsInCallback(calls[i].op, FALSE)]]
    /\ UNCHANGED <<apiDef, apiDef0, outs, mapLogged, frame>>

Next ==
    \E i \in 1..NumCalls :
        \/ registerClient(i)
        \/ generateToken(i)
        \/ isAPIDeployed(i)
        \/ isCertUploaded(i)
        \/ createAPIDef(i)
        \/ publishAPIDef(i)
        \/ listInvokableAPIUrl(i)
        \/ uploadCert(i)
        \/ updateAPIDef(i)
        \/ removeAPIDef(i)
        \/ removeCert(i)
        \/ updateCert(i)
        \/ listCertInfo(i)
        \/ HttpSucceeds(i)
        \/ HttpFails(i)

Spec == Init /\ [][Next]_vars

-----------------------------------------------------------------------------
(* Claims about the exported operations (checked under Spec) *)

Call == 1..NumCalls
Failed(i) == calls[i].pc = "handled" /\ ~calls[i].outcome.ok
Succeeded(i) == calls[i].pc = "handled" /\ calls[i].outcome.ok
\* the HTTP call of call i failed with a response
FailedWithResponse(i) == Failed(i) /\ calls[i].outcome.err.response # None

\* C1 as stated: once the callback of the HTTP outcome has run (after which
\* no code of the call runs any more) the promise is settled: resolved
\* after a 2xx response, rejected after a failure, with or without response
C1_Settles ==
    \A i \in Call :
        /\ Succeeded(i) => calls[i].promise.state = "resolved"
        /\ Failed(i) => calls[i].promise.state = "rejected"

\* C2 as stated: a promise rejected after a failed HTTP call is rejected
\* with the HTTP error object itself
C2_RejectsWithError ==
    \A i \in Call :
        (Failed(i) /\ calls[i].promise.state = "rejected") =>
            calls[i].promise.value = Some(calls[i].outcome.err)

\* the HTTP status a certificate operation expects as negative outcome
ExpectedStatus(op) == IF op = "uploadCert" THEN 409 ELSE 404

\* C3 as stated: a certificate operation whose response has the expected
\* negative status (404, or 409 for uploadCert) rejects and never logs;
\* with any other status it rejects and logs exactly once
C3_ByStatus ==
    \A i \in Call :
        (calls[i].op \in CertOps /\ FailedWithResponse(i)) =>
            /\ calls[i].promise.state = "rejected"
            /\ calls[i].logged =
                 (IF calls[i].outcome.err.response[1].status = ExpectedStatus(calls[i].op)
                  THEN 0 ELSE 1)

\* C3 amended: a certificate operation whose failure response carries the
\* vendor code 404 (409 for uploadCert) in the code field of its body
\* rejects and never logs; with any other or no code in the body it rejects
\* and logs exactly once, whatever the HTTP status
C3_ByBodyCode ==
    \A i \in Call :
        (calls[i].op \in CertOps /\ FailedWithResponse(i)) =>
            /\ calls[i].promise.state = "rejected"
            /\ calls[i].promise.value = Some(calls[i].outcome.err)
            /\ calls[i].logged =
                 (IF calls[i].outcome.err.response[1].data.code
                       = Some(ExpectedStatus(calls[i].op))
                  THEN 0 ELSE 1)

\* uploadCert was answered 409 with code 409 and isCertUploaded 404 with
\* no code in the body
C3_Witness ==
    /\ calls[1].op = "uploadCert" /\ FailedWithResponse(1)
    /\ calls[1].outcome.err.response[1].data.code = Some(409)
    /\ calls[1].logged = 0
    /\ calls[2].op = "isCertUploaded" /\ FailedWithResponse(2)
    /\ calls[2].outcome.err.response[1] = [status |-> 404, data |-> [code |-> None]]
    /\ calls[2].logged = 1

\* the call has returned and its HTTP outcome, if any, was handled
Over(i) == calls[i].pc \in {"returned", "handled"}

\* C4 as stated: over its whole lifetime every call issues exactly one
\* HTTP request
C4_ExactlyOne ==
    \A i \in Call : /\ calls[i].nreq <= 1
                    /\ Over(i) => calls[i].nreq = 1

\* C4 amended: every call issues at most one HTTP request: exactly one,
\* before and after its response of either kind, when its request
\* preparation completes, and none when the preparation throws
C4_AtMostOne ==
    \A i \in Call :
        /\ calls[i].nreq <= 1
        /\ calls[i].pc \in {"pending", "handled"} => calls[i].nreq = 1
        /\ calls[i].pc \in {"idle", "returned"} => calls[i].nreq = 0

\* one call failed, another succeeded
C4_Witness ==
    /\ Failed(1) /\ calls[1].op = "createAPIDef"
    /\ Succeeded(2) /\ calls[2].op = "publishAPIDef"

\* the promises call i can end with when it runs alone and its HTTP call
\* ends as it did
AlonePromises(i) ==
    IF calls[i].outcome.ok
    THEN {[state |-> "resolved", value |-> onFulfilled(calls[i].op, calls[i].outcome.res)]}
    ELSE {onRejected(calls[i].op, calls[i].outcome.err, r).promise :
            r \in renderErrorReturns(calls[i].outcome.err)}

\* C5: whatever calls were issued before and however the responses
\* interleave, the request of a call is the one it issues when it runs
\* alone (from the initial state), and its promise ends as it does alone
\* under the same HTTP outcome
C5_Independent ==
    \A i \in Call :
        /\ calls[i].pc \in {"pending", "handled"} =>
              calls[i].request =
                 Some(requestOf(InitFrame, calls[i].op, calls[i].wso2APIM, calls[i].arg))
        /\ calls[i].pc = "handled" => calls[i].promise \in AlonePromises(i)

\* an update of a definition without base URL was issued after a create,
\* and was answered while the create is still in flight
C5_Witness ==
    /\ calls[1].op = "createAPIDef" /\ calls[1].pc = "pending"
    /\ calls[1].request[1].data # None
    /\ calls[2].op = "updateAPIDef" /\ calls[2].pc = "handled"
    /\ calls[2].request[1].data # None
    /\ "url" \notin DOMAIN calls[2].request[1].data[1].endpointConfig.production_endpoints

\* C10: a call whose request preparation throws logs once, issues no
\* request, and has its promise resolved with undefined; createAPIDef and
\* updateAPIDef, given a definition the mapper fails on, log and still
\* issue their request, with an undefined body
C10_SwallowedThrow ==
    \A i \in Call :
        /\ calls[i].pc # "idle" =>
              (calls[i].pc = "returned"
                 <=> prepareThrows(calls[i].op, calls[i].wso2APIM, calls[i].arg))
        /\ calls[i].pc = "returned" =>
              /\ calls[i].logged = 1
              /\ calls[i].nreq = 0 /\ calls[i].request = None
              /\ calls[i].promise = [state |-> "resolved", value |-> None]
        /\ ( /\ calls[i].pc \in {"pending", "handled"}
             /\ calls[i].op \in {"createAPIDef", "updateAPIDef"}
             /\ constructAPIDefThrows(calls[i].arg.apiDef) ) =>
              /\ calls[i].nreq = 1
              /\ calls[i].request[1].data = None
              /\ calls[i].logged >= 1

\* uploadCert given no certificate path has returned, and createAPIDef
\* given a definition without backend has issued its request
C10_Witness ==
    /\ calls[1].op = "uploadCert" /\ calls[1].pc = "returned"
    /\ calls[1].wso2APIM # None /\ calls[1].arg.cert = None
    /\ calls[2].op = "createAPIDef" /\ calls[2].pc = "pending"
    /\ calls[2].arg.apiDef.backend = None

====
